---- MODULE Spec2Model ----
(***************************************************************************)
(* A model of the spaced-repetition scheduler of src/src/app.component.ts  *)
(* and its analysis collaborator src/src/services/gemini.service.ts.       *)
(*                                                                         *)
(* Time.  A Date holds an integral number of clock units since the epoch   *)
(* (milliseconds in the source, TimeClip truncates to an integer).  The    *)
(* model keeps that shape with a coarser unit: a day is TicksPerDay units. *)
(* The time zone has a fixed offset, so setDate(getDate() + n) moves a     *)
(* Date by n whole days.  Every new Date() of one handler run reads the    *)
(* same instant, the handlers run to completion on a single thread.        *)
(*                                                                         *)
(* Strings.  The strings the program stores are modelled by what they      *)
(* hold: an ISO date-time "YYYY-MM-DDThh:mm:ss.sssZ" is the pair of its    *)
(* UTC calendar day and its time of day, a date-only form value            *)
(* "YYYY-MM-DD" is a day, and the other strings are kept by their text.    *)
(*                                                                         *)
(* Not modelled: view navigation (activeView, selectedTopicId), the form   *)
(* controls between submissions (their values are inputs of a submission), *)
(* the write-through to localStorage, and the computed signals other than  *)
(* activityHeatmap.                                                        *)
(***************************************************************************)
EXTENDS Integers, Sequences, FiniteSets, TLC

\* ------------------------------------------------------------------ bounds
TicksPerDay == 5      \* clock units in a day (86 400 000 in the source)
MaxPick == 3          \* a review is picked among the first MaxPick of a list
MaxTopics == 2        \* Spec: topics created in one run
MaxCalls == 2         \* Spec: calls of the review, note and delete handlers
MaxNow == 2           \* Spec: the clock runs from 0 to MaxNow
MaxExamDay == 9       \* Spec: the latest exam day the form is given
MaxLiveExamDay == 3   \* SpecLive: exam days 0..MaxLiveExamDay
MaxGenCalls == 1      \* SpecGen: calls of the review, note and delete handlers
MaxGenNow == 2        \* SpecGen: the clock runs from 0 to MaxGenNow
MaxGenExamDay == 10   \* SpecGen: exam days 0..MaxGenExamDay
MaxStoredCalls == 3   \* SpecStored: calls of the review, note and delete handlers
MaxStoredDays == 1    \* SpecStored: the clock runs for MaxStoredDays days
MaxLongCalls == 2     \* SpecLong: calls of the review, note and delete handlers
MaxHeatCalls == 2     \* SpecHeat: calls of the review, note and delete handlers
MaxHeatDays == 1      \* SpecHeat: the clock runs for MaxHeatDays days

\* --------------------------------------------------------------- constants
maxReviews == 20
days == 60
MsPerDay == TicksPerDay

\* ----------------------------------------------------------------- strings
Text(s) == [kind |-> s, day |-> 0, tod |-> 0]

Undefined == Text("undefined")

\* Date.prototype.toISOString of the Date holding time t
toISOString(t) == [kind |-> "datetime", day |-> t \div TicksPerDay, tod |-> t % TicksPerDay]

\* the value of an <input type="date">: "YYYY-MM-DD"
DateOnly(d) == [kind |-> "date", day |-> d, tod |-> 0]

\* new Date(str).getTime() of a date-time or date-only string (UTC)
DateParse(s) == s.day * TicksPerDay + s.tod

\* str.split('T')[0] of a date-time string: its "YYYY-MM-DD" part
SplitT0(s) == DateOnly(s.day)

\* ---------------------------------------------------------------- numbers
Max(a, b) == IF a >= b THEN a ELSE b

\* floor and ceiling of a / b for b > 0 (\div rounds down)
Floor(a, b) == a \div b

Ceil(a, b) == -((-a) \div b)

\* Math.round(a / b) for b > 0: halves round up
Round(a, b) == (2 * a + b) \div (2 * b)

\* Math.max(1.3, 2.5 - complexity * 0.12), in hundredths
Multiplier100(complexity) == Max(130, 250 - complexity * 12)

(***************************************************************************)
(* `interval` of generateSchedule is multiplier^k after k passes of the    *)
(* loop.  It is kept exactly, as the digits in base 100 of                 *)
(* Multiplier100^k, least significant first: the last k digits are the     *)
(* fraction.                                                               *)
(***************************************************************************)
RECURSIVE MulDigits(_, _, _)
MulDigits(ds, m, carry) ==
  IF ds = <<>>
    THEN IF carry = 0 THEN <<>> ELSE <<carry % 100>> \o MulDigits(<<>>, m, carry \div 100)
    ELSE LET p == Head(ds) * m + carry
         IN <<p % 100>> \o MulDigits(Tail(ds), m, p \div 100)

RECURSIVE DigitsValue(_)
DigitsValue(ds) == IF ds = <<>> THEN 0 ELSE Head(ds) + 100 * DigitsValue(Tail(ds))

\* interval = [ds |-> digits, k |-> number of fraction digits]
IntervalOne == [ds |-> <<1>>, k |-> 0]

IntervalTimes(iv, m100) == [ds |-> MulDigits(iv.ds, m100, 0), k |-> iv.k + 1]

IntPart(iv) == DigitsValue(SubSeq(iv.ds, iv.k + 1, Len(iv.ds)))

\* Math.ceil(interval)
IntervalCeil(iv) ==
  IntPart(iv) + (IF \E i \in 1..iv.k : i <= Len(iv.ds) /\ iv.ds[i] # 0 THEN 1 ELSE 0)

\* Math.round(interval)
IntervalRound(iv) ==
  IntPart(iv) + (IF iv.k >= 1 /\ iv.k <= Len(iv.ds) /\ iv.ds[iv.k] >= 50 THEN 1 ELSE 0)

\* ---------------------------------------------------------------- sessions
Session(date, interval, type) ==
  [date |-> date, completed |-> FALSE, completedDate |-> Undefined,
   interval |-> interval, type |-> type, rating |-> "none"]

\* the while loop of generateSchedule
RECURSIVE ScheduleLoop(_, _, _, _, _, _)
ScheduleLoop(schedule, interval, runningDate, left, examDate, m100) ==
  IF left = 0 THEN schedule
  ELSE IF examDate.kind # "undefined" /\ runningDate > DateParse(examDate) THEN schedule
  ELSE LET pushed == Append(schedule,
                            Session(toISOString(runningDate), IntervalRound(interval),
                                    IF Len(schedule) = 0 THEN "initial" ELSE "standard"))
           next == IntervalTimes(interval, m100)
           nextJump == IntervalCeil(next)
       IN ScheduleLoop(pushed, next, runningDate + nextJump * TicksPerDay,
                       left - 1, examDate, m100)

\* ExamReconcile with the lone session on the exam date typed as a first one
ExamReconcileInitial(schedule, examDate) ==
  IF examDate.kind = "undefined" THEN schedule
  ELSE IF Len(schedule) = 0
    THEN <<Session(toISOString(DateParse(examDate)), 0, "initial")>>
    ELSE LET lastReviewDate == DateParse(schedule[Len(schedule)].date)
             diffTime == DateParse(examDate) - lastReviewDate
             diffDays == Ceil(diffTime, MsPerDay)
             finalReview == DateParse(examDate) - 2 * TicksPerDay
         IN IF diffDays > 4 /\ finalReview > lastReviewDate
              THEN Append(schedule, Session(toISOString(finalReview), diffDays - 2, "final"))
              ELSE schedule

\* ExamReconcile without the lone session on the exam date
ExamReconcileNoClamp(schedule, examDate) ==
  IF examDate.kind = "undefined" \/ Len(schedule) = 0 THEN schedule
  ELSE LET lastReviewDate == DateParse(schedule[Len(schedule)].date)
           diffTime == DateParse(examDate) - lastReviewDate
           diffDays == Ceil(diffTime, MsPerDay)
           finalReview == DateParse(examDate) - 2 * TicksPerDay
       IN IF diffDays > 4 /\ finalReview > lastReviewDate
            THEN Append(schedule, Session(toISOString(finalReview), diffDays - 2, "final"))
            ELSE schedule

\* ExamReconcile with a final session from a gap of four days on
ExamReconcileEager(schedule, examDate) ==
  IF examDate.kind = "undefined" THEN schedule
  ELSE IF Len(schedule) = 0
    THEN <<Session(toISOString(DateParse(examDate)), 0, "final")>>
    ELSE LET lastReviewDate == DateParse(schedule[Len(schedule)].date)
             diffTime == DateParse(examDate) - lastReviewDate
             diffDays == Ceil(diffTime, MsPerDay)
             finalReview == DateParse(examDate) - 2 * TicksPerDay
         IN IF diffDays > 3 /\ finalReview > lastReviewDate
              THEN Append(schedule, Session(toISOString(finalReview), diffDays - 2, "final"))
              ELSE schedule

\* the exam-date part of generateSchedule
ExamReconcile(schedule, examDate) ==
  IF examDate.kind = "undefined" THEN schedule
  ELSE IF Len(schedule) = 0
    THEN <<Session(toISOString(DateParse(examDate)), 0, "final")>>
    ELSE LET lastReviewDate == DateParse(schedule[Len(schedule)].date)
             diffTime == DateParse(examDate) - lastReviewDate
             diffDays == Ceil(diffTime, MsPerDay)
             finalReview == DateParse(examDate) - 2 * TicksPerDay
         IN IF diffDays > 4 /\ finalReview > lastReviewDate
              THEN Append(schedule, Session(toISOString(finalReview), diffDays - 2, "final"))
              ELSE schedule

\* generateSchedule with the first session today instead of tomorrow
generateScheduleToday(complexity, examDate, t) ==
  ExamReconcile(ScheduleLoop(<<>>, IntervalOne, t, maxReviews,
                             examDate, Multiplier100(complexity)),
                examDate)

\* generateSchedule(complexity, examDateStr) called at time t
generateSchedule(complexity, examDate, t) ==
  ExamReconcile(ScheduleLoop(<<>>, IntervalOne, t + TicksPerDay, maxReviews,
                             examDate, Multiplier100(complexity)),
                examDate)

\* reviews.sort((a, b) => new Date(a.date).getTime() - new Date(b.date).getTime()):
\* Array.prototype.sort is stable
RECURSIVE InsertByDate(_, _)
InsertByDate(sorted, r) ==
  IF sorted = <<>> THEN <<r>>
  ELSE IF DateParse(Head(sorted).date) <= DateParse(r.date)
    THEN <<Head(sorted)>> \o InsertByDate(Tail(sorted), r)
    ELSE <<r>> \o sorted

RECURSIVE SortByDate(_)
SortByDate(reviews) ==
  IF reviews = <<>> THEN <<>>
  ELSE InsertByDate(SortByDate(SubSeq(reviews, 1, Len(reviews) - 1)), reviews[Len(reviews)])

\* Array.prototype.findIndex over the indices the predicate accepts, 1-based;
\* 0 when nothing is found (-1 in the source)
FindIndex(accepted) ==
  IF accepted = {} THEN 0 ELSE CHOOSE i \in accepted : \A j \in accepted : i <= j

\* reviews.filter(P).length, over the indices the predicate accepts
CountOf(accepted) == Cardinality(accepted)

\* ------------------------------------------------------ markReviewComplete
\* HardReschedule without the sort after the push
HardRescheduleUnsorted(reviews, t) ==
  LET tomorrow == t + TicksPerDay
      exists == \E i \in 1..Len(reviews) :
                  SplitT0(reviews[i].date) = SplitT0(toISOString(tomorrow))
  IN IF exists THEN reviews
     ELSE Append(reviews, Session(toISOString(tomorrow), 1, "recovery"))

\* the rating === 'hard' branch, at time t
HardReschedule(reviews, t) ==
  LET tomorrow == t + TicksPerDay
      exists == \E i \in 1..Len(reviews) :
                  SplitT0(reviews[i].date) = SplitT0(toISOString(tomorrow))
  IN IF exists THEN reviews
     ELSE SortByDate(Append(reviews, Session(toISOString(tomorrow), 1, "recovery")))

\* new Date(today.getTime() + currentDiff * 1.3).getTime(): the Date keeps the
\* integral part of the sum, which is positive
StretchedDate(oldDate, today) == today + Floor(13 * (oldDate - today), 10)

\* Math.ceil(newDiff / (1000 * 60 * 60 * 24)) with newDiff = currentDiff * 1.3
StretchedInterval(oldDate, today) == Ceil(13 * (oldDate - today), 10 * MsPerDay)

\* EasyReschedule stretching the next pending session whatever its type
EasyRescheduleAnyType(reviews, reviewIndex, t) ==
  LET IsNext(r, idx) == idx > reviewIndex /\ ~r.completed
      nextIndex == FindIndex({ix \in 1..Len(reviews) : IsNext(reviews[ix], ix)})
  IN IF nextIndex = 0 THEN reviews
     ELSE LET nextReview == reviews[nextIndex]
              oldDate == DateParse(nextReview.date)
          IN SortByDate([reviews EXCEPT ![nextIndex] =
               [nextReview EXCEPT !.date = toISOString(StretchedDate(oldDate, t)),
                                  !.interval = StretchedInterval(oldDate, t)]])

\* the rating === 'easy' branch, at time t
EasyReschedule(reviews, reviewIndex, t) ==
  LET IsNext(r, idx) == idx > reviewIndex /\ ~r.completed /\ r.type # "final"
      nextIndex == FindIndex({ix \in 1..Len(reviews) : IsNext(reviews[ix], ix)})
  IN IF nextIndex = 0 THEN reviews
     ELSE LET nextReview == reviews[nextIndex]
              oldDate == DateParse(nextReview.date)
          IN SortByDate([reviews EXCEPT ![nextIndex] =
               [nextReview EXCEPT !.date = toISOString(StretchedDate(oldDate, t)),
                                  !.interval = StretchedInterval(oldDate, t)]])

(***************************************************************************)
(* Math.round((goodOrEasyCount / completedCount) * 100) is computed in     *)
(* IEEE 754 doubles: the quotient is rounded to 53 significant bits, so is *)
(* the product, and Math.round rounds the result half up.  A double is     *)
(* [m, t]: the integer m, written in limbs of 13 bits, least significant   *)
(* first, stands for m * 2^(-52 - t).                                      *)
(***************************************************************************)
Limb == 8192

RECURSIVE Pow2(_)
Pow2(k) == IF k = 0 THEN 1 ELSE 2 * Pow2(k - 1)

\* the limbs of limbs + carry, every limb below Limb
RECURSIVE Normalize(_, _)
Normalize(limbs, carry) ==
  IF limbs = <<>>
    THEN IF carry = 0 THEN <<>> ELSE <<carry % Limb>> \o Normalize(<<>>, carry \div Limb)
    ELSE LET x == Head(limbs) + carry
         IN <<x % Limb>> \o Normalize(Tail(limbs), x \div Limb)

RECURSIVE LimbsValue(_)
LimbsValue(limbs) == IF limbs = <<>> THEN 0 ELSE Head(limbs) + Limb * LimbsValue(Tail(limbs))

\* the least t with a * 2^t >= n, and a * 2^t
RECURSIVE Align(_, _, _)
Align(a, n, t) == IF a >= n THEN [a |-> a, t |-> t] ELSE Align(2 * a, n, t + 1)

\* k more limbs of the quotient r / n, and the remainder left
RECURSIVE QuotientLimbs(_, _, _)
QuotientLimbs(r, n, k) ==
  IF k = 0 THEN [limbs |-> <<>>, r |-> r]
  ELSE LET x == r * Limb
           rest == QuotientLimbs(x % n, n, k - 1)
       IN [limbs |-> rest.limbs \o <<x \div n>>, r |-> rest.r]

\* the double g / n, for 0 < g <= n: 53 bits of the quotient, rounded to
\* nearest, ties to even
DoubleDivide(g, n) ==
  LET al == Align(g, n, 0)
      q == QuotientLimbs(al.a - n, n, 4)
      guard == 2 * q.r >= n
      sticky == 2 * q.r # (IF guard THEN n ELSE 0)
      up == guard /\ (sticky \/ q.limbs[1] % 2 = 1)
  IN [m |-> Normalize(q.limbs \o <<1>>, IF up THEN 1 ELSE 0), t |-> al.t]

\* the double x * 100: the product has 59 or 60 bits, rounded to 53
DoubleTimes100(x) ==
  LET p == Normalize([i \in 1..Len(x.m) |-> x.m[i] * 100], 0)
      top == LimbsValue(SubSeq(p, 5, Len(p)))
      drop == IF top >= 128 THEN 128 ELSE 64
      lo == p[1] % drop
      up == 2 * lo > drop \/ (2 * lo = drop /\ (p[1] \div drop) % 2 = 1)
  IN [m |-> Normalize(<<p[1] - lo + (IF up THEN drop ELSE 0)>> \o Tail(p), 0), t |-> x.t]

\* Math.round(x): the integer nearest to x, halves up
MathRound(x) ==
  LET whole == LimbsValue(SubSeq(x.m, 5, Len(x.m)))
  IN IF x.t = 0 THEN whole + (IF x.m[4] >= Limb \div 2 THEN 1 ELSE 0)
     ELSE (whole + Pow2(x.t - 1)) \div Pow2(x.t)

\* Math.round((goodOrEasyCount / completedCount) * 100)
MathRoundPercent(goodOrEasyCount, completedCount) ==
  IF goodOrEasyCount = 0 THEN 0
  ELSE MathRound(DoubleTimes100(DoubleDivide(goodOrEasyCount, completedCount)))

\* newMastery
NewMastery(reviews) ==
  LET completedCount == CountOf({ix \in 1..Len(reviews) : reviews[ix].completed})
      goodOrEasyCount == CountOf({ix \in 1..Len(reviews) : reviews[ix].completed /\ reviews[ix].rating \in {"good", "easy"}})
  IN IF completedCount > 0 THEN MathRoundPercent(goodOrEasyCount, completedCount) ELSE 0

\* next ? next.date : 'Completed'
NewNextReviewDate(reviews, t) ==
  LET IsDue(r, idx) == ~r.completed /\ DateParse(r.date) >= t
      next == FindIndex({ix \in 1..Len(reviews) : IsDue(reviews[ix], ix)})
  IN IF next # 0 THEN reviews[next].date ELSE Text("Completed")

\* MarkTopic without the early return when no session has the date: the
\* derived fields are recomputed and the rating lands on the first session
MarkTopicUnguarded(tp, topicId, reviewDate, rating, t) ==
  IF tp.id # topicId THEN tp
  ELSE LET IsTarget(r, idx) == r.date = reviewDate
           found == FindIndex({ix \in 1..Len(tp.reviews) : IsTarget(tp.reviews[ix], ix)})
           reviewIndex == IF found = 0 THEN 1 ELSE found
           marked == [tp.reviews EXCEPT ![reviewIndex] =
                        [@ EXCEPT !.completed = TRUE, !.rating = rating,
                                  !.completedDate = toISOString(t)]]
           reviews == IF rating = "hard" THEN HardReschedule(marked, t)
                      ELSE IF rating = "easy" THEN EasyReschedule(marked, reviewIndex, t)
                      ELSE marked
       IN [tp EXCEPT !.reviews = reviews,
                     !.mastery = NewMastery(reviews),
                     !.nextReviewDate = NewNextReviewDate(reviews, t)]

\* the body of topics.map in markReviewComplete, for one topic, at time t
MarkTopic(tp, topicId, reviewDate, rating, t) ==
  IF tp.id # topicId THEN tp
  ELSE LET IsTarget(r, idx) == r.date = reviewDate
           reviewIndex == FindIndex({ix \in 1..Len(tp.reviews) : IsTarget(tp.reviews[ix], ix)})
       IN IF reviewIndex = 0 THEN tp
          ELSE LET marked == [tp.reviews EXCEPT ![reviewIndex] =
                                [@ EXCEPT !.completed = TRUE, !.rating = rating,
                                          !.completedDate = toISOString(t)]]
                   reviews == IF rating = "hard" THEN HardReschedule(marked, t)
                              ELSE IF rating = "easy" THEN EasyReschedule(marked, reviewIndex, t)
                              ELSE marked
               IN [tp EXCEPT !.reviews = reviews,
                             !.mastery = NewMastery(reviews),
                             !.nextReviewDate = NewNextReviewDate(reviews, t)]

\* ------------------------------------------------------ analyzeAndAddTopic
\* Validators.required and Validators.minLength(3) on newTopicName
NameInvalid(name) == name \in {"", "ab"}

\* what GeminiService.analyzeTopic resolves to: the parsed answer of the service
\* or, on any failure, the fallback
Analysis(complexity) ==
  [complexity |-> complexity, subtopics |-> <<"s1", "s2", "s3">>, summary |-> "ai"]

Fallback ==
  [complexity |-> 5,
   subtopics |-> <<"Core Concepts", "Advanced Theory", "Practical Application">>,
   summary |-> "Data packet analysis failed. Standard protocol initiated."]

\* what the generateContent call does: it answers with the JSON text the
\* response schema asks for, or it throws, or its text is empty, or its text
\* does not parse
Responses ==
  {[kind |-> "json", complexity |-> c] : c \in 1..10}
    \cup {[kind |-> k, complexity |-> 0] : k \in {"throws", "empty", "unparsable"}}

\* GeminiService.analyzeTopic, given what the generateContent call does
analyzeTopic(response) ==
  IF response.kind = "json" THEN Analysis(response.complexity) ELSE Fallback

AnalyzeTopicResults == {analyzeTopic(r) : r \in Responses}

\* newTopic, built at time t with a fresh id
NewTopic(id, name, examDate, analysis, t) ==
  LET reviews == generateSchedule(analysis.complexity, examDate, t)
  IN [id |-> id, name |-> name, addedDate |-> toISOString(t), examDate |-> examDate,
      complexity |-> analysis.complexity, subtopics |-> analysis.subtopics,
      summary |-> analysis.summary, reviews |-> reviews,
      nextReviewDate |-> IF Len(reviews) > 0 THEN reviews[1].date
                         ELSE Text("No Reviews Scheduled"),
      mastery |-> 0, notes |-> ""]

\* -------------------------------------------------------------------- state
VARIABLES
  topics,     \* the topics signal: a sequence of Topic
  isLoading,  \* the isLoading signal
  inflight,   \* analyzeAndAddTopic runs suspended at the await, oldest first
  nextId,     \* the ids crypto.randomUUID has handed out so far
  now,        \* the clock
  heatmap,    \* the memoized value of the activityHeatmap computed signal
  calls,      \* handler calls made so far
  last        \* the last handler call: its name and arguments

vars == <<topics, isLoading, inflight, nextId, now, heatmap, calls, last>>

\* a computed signal that has no value yet, or whose value was invalidated
\* because a signal it read was set
Dirty == <<>>

Call(op, id, date, rating) == [op |-> op, id |-> id, date |-> date, rating |-> rating]

Init ==
  /\ topics = <<>>
  /\ isLoading = FALSE
  /\ inflight = <<>>
  /\ nextId = 0
  /\ now = 0
  /\ heatmap = Dirty
  /\ calls = 0
  /\ last = Call("none", 0, Undefined, "none")

\* ------------------------------------------------------------------ inputs
Ratings == {"hard", "good", "easy"}

\* a topic id no topic has
NoTopicId == 0

\* a date string no session has
StaleDate == toISOString((0 - 1000) * TicksPerDay)

TopicIds == {topics[i].id : i \in 1..Len(topics)}

TopicOf(id) == topics[CHOOSE i \in 1..Len(topics) : topics[i].id = id]

PickableDates(id) ==
  IF id \in TopicIds
    THEN LET rs == TopicOf(id).reviews
         IN {rs[i].date : i \in 1..(IF Len(rs) < MaxPick THEN Len(rs) ELSE MaxPick)}
            \cup {StaleDate}
    ELSE {StaleDate}

\* ----------------------------------------------------------------- actions
\* time passes
AdvanceClock(d) ==
  /\ now' = now + d
  /\ UNCHANGED <<topics, isLoading, inflight, nextId, heatmap, calls, last>>

\* analyzeAndAddTopic up to its await, with the form holding name and examDate
analyzeAndAddTopic(name, examDate) ==
  /\ calls' = calls + 1
  /\ last' = Call("analyzeAndAddTopic", 0, examDate, name)
  /\ IF NameInvalid(name)
       THEN UNCHANGED <<topics, isLoading, inflight, nextId, now, heatmap>>
       ELSE /\ isLoading' = TRUE
            /\ inflight' = Append(inflight, [name |-> name, examDate |-> examDate])
            /\ UNCHANGED <<topics, nextId, now, heatmap>>

\* analyzeAndAddTopicResume with a failed analysis rejecting the await: the
\* catch block alerts, no topic is built, the finally block runs
analyzeAndAddTopicResumeRejects(i, analysis) ==
  /\ i \in 1..Len(inflight)
  /\ LET run == inflight[i]
         newTopic == NewTopic(nextId + 1, run.name, run.examDate, analysis, now)
     IN /\ topics' = IF analysis = Fallback THEN topics ELSE <<newTopic>> \o topics
        /\ nextId' = nextId + 1
        /\ last' = Call("analyzeAndAddTopicResume", nextId + 1, run.examDate,
                        IF analysis = Fallback THEN "failed" ELSE "analysed")
  /\ inflight' = SubSeq(inflight, 1, i - 1) \o SubSeq(inflight, i + 1, Len(inflight))
  /\ isLoading' = FALSE
  /\ heatmap' = Dirty
  /\ UNCHANGED <<now, calls>>

\* analyzeAndAddTopicResume setting the collection to the new topic alone, as
\* a run would that added to the empty list it saw before its await
analyzeAndAddTopicResumeAlone(i, analysis) ==
  /\ i \in 1..Len(inflight)
  /\ LET run == inflight[i]
         newTopic == NewTopic(nextId + 1, run.name, run.examDate, analysis, now)
     IN /\ topics' = <<newTopic>>
        /\ nextId' = nextId + 1
        /\ last' = Call("analyzeAndAddTopicResume", nextId + 1, run.examDate,
                        IF analysis = Fallback THEN "failed" ELSE "analysed")
  /\ inflight' = SubSeq(inflight, 1, i - 1) \o SubSeq(inflight, i + 1, Len(inflight))
  /\ isLoading' = FALSE
  /\ heatmap' = Dirty
  /\ UNCHANGED <<now, calls>>

\* analyzeAndAddTopic from its await on: the analysis has resolved
analyzeAndAddTopicResume(i, analysis) ==
  /\ i \in 1..Len(inflight)
  /\ LET run == inflight[i]
         newTopic == NewTopic(nextId + 1, run.name, run.examDate, analysis, now)
     IN /\ topics' = <<newTopic>> \o topics
        /\ nextId' = nextId + 1
        /\ last' = Call("analyzeAndAddTopicResume", nextId + 1, run.examDate,
                        IF analysis = Fallback THEN "failed" ELSE "analysed")
  /\ inflight' = SubSeq(inflight, 1, i - 1) \o SubSeq(inflight, i + 1, Len(inflight))
  /\ isLoading' = FALSE
  /\ heatmap' = Dirty
  /\ UNCHANGED <<now, calls>>

markReviewComplete(topicId, reviewDate, rating) ==
  /\ calls' = calls + 1
  /\ last' = Call("markReviewComplete", topicId, reviewDate, rating)
  /\ topics' = [i \in 1..Len(topics) |-> MarkTopic(topics[i], topicId, reviewDate, rating, now)]
  /\ heatmap' = Dirty
  /\ UNCHANGED <<isLoading, inflight, nextId, now>>

updateNotes(topicId, text) ==
  /\ calls' = calls + 1
  /\ last' = Call("updateNotes", topicId, Undefined, "none")
  /\ topics' = [i \in 1..Len(topics) |->
                  IF topics[i].id = topicId THEN [topics[i] EXCEPT !.notes = text]
                  ELSE topics[i]]
  /\ heatmap' = Dirty
  /\ UNCHANGED <<isLoading, inflight, nextId, now>>

\* list.filter(t => t.id !== id)
RECURSIVE FilterOut(_, _)
FilterOut(list, id) ==
  IF list = <<>> THEN <<>>
  ELSE (IF Head(list).id # id THEN <<Head(list)>> ELSE <<>>) \o FilterOut(Tail(list), id)

\* deleteTopic: confirmed is the answer to the confirm() dialog
deleteTopic(id, confirmed) ==
  /\ calls' = calls + 1
  /\ last' = Call("deleteTopic", id, Undefined, IF confirmed THEN "confirmed" ELSE "cancelled")
  /\ topics' = IF confirmed THEN FilterOut(topics, id) ELSE topics
  /\ heatmap' = IF confirmed THEN Dirty ELSE heatmap
  /\ UNCHANGED <<isLoading, inflight, nextId, now>>

\* the computation of the activityHeatmap computed signal over the topic
\* list, run at time t; entry k is for the day days - k days before t
activityHeatmap(list, t) ==
  LET all == UNION {{<<i, j>> : j \in 1..Len(list[i].reviews)} : i \in 1..Len(list)}
      dateStrOf(r) == SplitT0(IF r.completedDate # Undefined THEN r.completedDate ELSE r.date)
      map(dateStr) == Cardinality({p \in all :
                                     /\ list[p[1]].reviews[p[2]].completed
                                     /\ dateStrOf(list[p[1]].reviews[p[2]]) = dateStr})
  IN [k \in 1..days |->
        LET i == days - k
            dateStr == SplitT0(toISOString(t - i * TicksPerDay))
            count == map(dateStr)
            intensity == IF count > 8 THEN 4
                         ELSE IF count > 5 THEN 3
                         ELSE IF count > 2 THEN 2
                         ELSE IF count > 0 THEN 1 ELSE 0
        IN [date |-> dateStr, count |-> count, intensity |-> intensity]]

\* the view reads activityHeatmap(): a computed signal that is dirty runs its
\* computation and memoizes the result.  It is dirty until first read and
\* again after a signal it read (topics) was set; new Date() is no signal.
\* Reading a clean one returns the memoized value and changes nothing.
Render ==
  /\ heatmap = Dirty
  /\ heatmap' = activityHeatmap(topics, now)
  /\ UNCHANGED <<topics, isLoading, inflight, nextId, now, calls, last>>

\* a review is rated, after fewer than `most` calls
Review(most) ==
  /\ calls < most
  /\ \E topicId \in TopicIds \cup {NoTopicId} :
       \E reviewDate \in PickableDates(topicId), rating \in Ratings :
         markReviewComplete(topicId, reviewDate, rating)

\* the notes of a topic are edited
Annotate(most) ==
  /\ calls < most
  /\ \E topicId \in TopicIds \cup {NoTopicId} : updateNotes(topicId, "note")

\* the delete button is pressed
Delete(most) ==
  /\ calls < most
  /\ \E id \in TopicIds \cup {NoTopicId}, confirmed \in BOOLEAN : deleteTopic(id, confirmed)

\* the form is submitted, after fewer than `most` topics were created
Submit(names, examDates, most, mostCalls) ==
  \E name \in names, examDate \in examDates :
    /\ calls < mostCalls
    /\ NameInvalid(name) \/ nextId + Len(inflight) < most
    /\ analyzeAndAddTopic(name, examDate)

\* an analysis resolves
Resolve(results) ==
  \E i \in 1..Len(inflight), analysis \in results : analyzeAndAddTopicResume(i, analysis)

\* time passes, up to `latest`
Tick(latest) == \E d \in 1..TicksPerDay : now + d <= latest /\ AdvanceClock(d)

(***************************************************************************)
(* Spec: a run that starts with nothing in localStorage, with two topics   *)
(* of a few kinds.                                                         *)
(***************************************************************************)
ExamDates == {Undefined, DateOnly(MaxExamDay)}

SomeResults == {Analysis(1), Fallback}

Next ==
  \/ Tick(MaxNow)
  \/ Submit({"ab", "abc"}, ExamDates, MaxTopics, MaxCalls + MaxTopics)
  \/ Resolve(SomeResults)
  \/ Review(MaxCalls + nextId + Len(inflight))
  \/ Annotate(MaxCalls + nextId + Len(inflight))
  \/ Delete(MaxCalls + nextId + Len(inflight))

Spec == Init /\ [][Next]_vars

(***************************************************************************)
(* SpecLive: a run in which topics are only created, each with an exam    *)
(* date, and every analysis call settles: the promise analyzeAndAddTopic   *)
(* awaits resolves once the service has answered or failed, and the        *)
(* continuation is then run from the microtask queue.                      *)
(***************************************************************************)
LiveExamDates == {DateOnly(d) : d \in 0..MaxLiveExamDay}

NextLive ==
  \/ Tick(MaxNow)
  \/ Submit({"ab", "abc"}, LiveExamDates, MaxTopics, MaxCalls + MaxTopics)
  \/ Resolve(SomeResults)

SpecLive == Init /\ [][NextLive]_vars /\ WF_vars(Resolve(SomeResults))

(***************************************************************************)
(* SpecGen: a run that starts with nothing in localStorage and creates one *)
(* topic, of any complexity and with any exam date.                        *)
(***************************************************************************)
GenExamDates == {Undefined} \cup {DateOnly(d) : d \in 0..MaxGenExamDay}

NextGen ==
  \/ Tick(MaxGenNow)
  \/ Submit({"ab", "abc"}, GenExamDates, 1, 1)
  \/ Resolve(AnalyzeTopicResults)
  \/ Review(MaxGenCalls + nextId + Len(inflight))
  \/ Annotate(MaxGenCalls + nextId + Len(inflight))
  \/ Delete(MaxGenCalls + nextId + Len(inflight))

SpecGen == Init /\ [][NextGen]_vars

(***************************************************************************)
(* SpecStored: the constructor loads the collection an earlier run left in *)
(* localStorage.  That run built a topic of complexity 4 without an exam   *)
(* date at time 0 and rated its first review hard in the last instant of   *)
(* the next day; this run starts the day after, and reviews, annotates and *)
(* deletes.                                                                *)
(***************************************************************************)
StoredHardAt == 2 * TicksPerDay - 1

StoredNow == 2 * TicksPerDay

StoredTopic ==
  LET fresh == NewTopic(1, "abc", Undefined, Analysis(4), 0)
  IN MarkTopic(fresh, 1, fresh.reviews[1].date, "hard", StoredHardAt)

InitStored ==
  /\ topics = <<StoredTopic>>
  /\ isLoading = FALSE
  /\ inflight = <<>>
  /\ nextId = 1
  /\ now = StoredNow
  /\ heatmap = Dirty
  /\ calls = 0
  /\ last = Call("none", 0, Undefined, "none")

NextStored ==
  \/ Tick(StoredNow + MaxStoredDays * TicksPerDay)
  \/ Review(MaxStoredCalls)
  \/ Annotate(MaxStoredCalls)
  \/ Delete(MaxStoredCalls)

SpecStored == InitStored /\ [][NextStored]_vars

(***************************************************************************)
(* SpecLong: the constructor loads a collection that was used for weeks.   *)
(* An earlier run built a topic of complexity 1 without an exam date at    *)
(* time 0, rated its first review hard at the start of each of the next    *)
(* LongDays days, and then rated the first pending review again and again: *)
(* LongGood times good, LongHard times hard.  This run goes on rating.     *)
(***************************************************************************)
LongDays == maxReviews + 3

LongGood == maxReviews + 2

LongHard == maxReviews - 5

RECURSIVE DailyHard(_, _, _)
DailyHard(tp, day, lastDay) ==
  IF day > lastDay \/ tp.reviews = <<>> THEN tp
  ELSE DailyHard(MarkTopic(tp, tp.id, tp.reviews[1].date, "hard", day * TicksPerDay),
                 day + 1, lastDay)

RECURSIVE RateFirstPending(_, _, _, _)
RateFirstPending(tp, count, rating, t) ==
  LET IsPending(r, idx) == ~r.completed
      first == FindIndex({ix \in 1..Len(tp.reviews) : IsPending(tp.reviews[ix], ix)})
  IN IF count = 0 \/ first = 0 THEN tp
     ELSE RateFirstPending(MarkTopic(tp, tp.id, tp.reviews[first].date, rating, t),
                           count - 1, rating, t)

LongNow == (LongDays + 1) * TicksPerDay

LongTopic ==
  LET fresh == NewTopic(1, "abc", Undefined, Analysis(1), 0)
      month == DailyHard(fresh, 1, LongDays)
  IN RateFirstPending(RateFirstPending(month, LongGood, "good", LongNow),
                      LongHard, "hard", LongNow)

InitLong ==
  /\ topics = <<LongTopic>>
  /\ isLoading = FALSE
  /\ inflight = <<>>
  /\ nextId = 1
  /\ now = LongNow
  /\ heatmap = Dirty
  /\ calls = 0
  /\ last = Call("none", 0, Undefined, "none")

\* the dates of the first MaxPick pending reviews of a topic
PendingDates(id) ==
  LET rs == TopicOf(id).reviews
      pending == {i \in 1..Len(rs) : ~rs[i].completed}
  IN {rs[i].date : i \in {j \in pending :
                            Cardinality({k \in pending : k < j}) < MaxPick}}

\* a pending review is rated
ReviewPending(most) ==
  /\ calls < most
  /\ \E topicId \in TopicIds :
       \E reviewDate \in PendingDates(topicId), rating \in Ratings :
         markReviewComplete(topicId, reviewDate, rating)

NextLong ==
  \/ Tick(LongNow + TicksPerDay)
  \/ ReviewPending(MaxLongCalls)
  \/ Annotate(MaxLongCalls)
  \/ Delete(MaxLongCalls)

SpecLong == InitLong /\ [][NextLong]_vars

(***************************************************************************)
(* SpecHeat: the constructor loads a collection with two months of         *)
(* history, and the view shows the heatmap.  An earlier version of the     *)
(* program completed the first review of a complexity-10 topic, built at   *)
(* time 0, without recording a completedDate; later runs rated one review  *)
(* three days before this run starts, three more the day after, six the    *)
(* day after that and nine on the eve of this run.                         *)
(***************************************************************************)
HeatNow == (days + 1) * TicksPerDay

HeatTopic ==
  LET fresh == NewTopic(1, "abc", Undefined, Analysis(10), 0)
      legacy == [fresh EXCEPT !.reviews[1] = [@ EXCEPT !.completed = TRUE, !.rating = "good"],
                              !.mastery = 100,
                              !.nextReviewDate = fresh.reviews[2].date]
      one == RateFirstPending(legacy, 1, "good", HeatNow - 3 * TicksPerDay)
      three == RateFirstPending(one, 3, "good", HeatNow - 2 * TicksPerDay - 1)
      six == RateFirstPending(three, 6, "good", HeatNow - 2 * TicksPerDay)
  IN RateFirstPending(six, 9, "good", HeatNow - 1)

InitHeat ==
  /\ topics = <<HeatTopic>>
  /\ isLoading = FALSE
  /\ inflight = <<>>
  /\ nextId = 1
  /\ now = HeatNow
  /\ heatmap = Dirty
  /\ calls = 0
  /\ last = Call("none", 0, Undefined, "none")

NextHeat ==
  \/ Tick(HeatNow + MaxHeatDays * TicksPerDay)
  \/ Render
  \/ Review(MaxHeatCalls)
  \/ Annotate(MaxHeatCalls)
  \/ Delete(MaxHeatCalls)

SpecHeat == InitHeat /\ [][NextHeat]_vars

\* ------------------------------------------------------ claims: vocabulary
Topics == {topics[i] : i \in 1..Len(topics)}

Sessions(tp) == {tp.reviews[i] : i \in 1..Len(tp.reviews)}

Pending(tp) == {r \in Sessions(tp) : ~r.completed}

Typed(tp, type) == {i \in 1..Len(tp.reviews) : tp.reviews[i].type = type}

\* the step is a call of markReviewComplete with this rating
Rated(rating) ==
  calls' = calls + 1 /\ last'.op = "markReviewComplete" /\ last'.rating = rating

\* the topic with this id after the step
TopicAfter(id) == CHOOSE i \in 1..Len(topics') : topics'[i].id = id

\* the UTC calendar day of time t
DayOf(t) == toISOString(t).day

\* ------------------------------------------------------------------- C1
\* C1: in every reachable state each topic's review list is sorted by
\* ascending session date.
Inv_C1 ==
  \A tp \in Topics : \A i, j \in 1..Len(tp.reviews) :
    i < j => DateParse(tp.reviews[i].date) <= DateParse(tp.reviews[j].date)

\* a hard rating has just put tomorrow's recovery session in front of a
\* session that was already scheduled
Witness_C1 ==
  /\ last.op = "markReviewComplete" /\ last.rating = "hard"
  /\ \E tp \in Topics : \E i \in 1..(Len(tp.reviews) - 1) :
       /\ tp.id = last.id
       /\ tp.reviews[i].type = "recovery"
       /\ tp.reviews[i].date = toISOString(now + TicksPerDay)
       /\ tp.reviews[i + 1].type = "standard"

\* ------------------------------------------------------------------- C2
\* C2 as claimed: nextReviewDate is the date of the earliest pending review
\* whenever one exists, and a "no reviews remain" sentinel otherwise.
Claim_C2 ==
  \A tp \in Topics :
    IF Pending(tp) # {}
      THEN \E r \in Pending(tp) :
             /\ tp.nextReviewDate = r.date
             /\ \A q \in Pending(tp) : DateParse(r.date) <= DateParse(q.date)
      ELSE tp.nextReviewDate \in {Text("Completed"), Text("No Reviews Scheduled")}

\* ------------------------------------------------------------------- C3
Completed(tp) == {i \in 1..Len(tp.reviews) : tp.reviews[i].completed}

GoodOrEasy(tp) == {i \in Completed(tp) : tp.reviews[i].rating \in {"good", "easy"}}

\* C3 as claimed: mastery is round(100 * good-or-easy / completed) over the
\* completed reviews, 0 when there is none, and lies in 0..100.
Claim_C3 ==
  \A tp \in Topics :
    /\ tp.mastery \in 0..100
    /\ tp.mastery = (IF Completed(tp) = {} THEN 0
                     ELSE Round(100 * Cardinality(GoodOrEasy(tp)), Cardinality(Completed(tp))))

\* ------------------------------------------------------------------- C4
\* C4 as claimed: a completed session keeps its rating, its completedDate and
\* its completed flag through every later step, and completedDate is present
\* only on completed sessions.
Claim_C4 ==
  /\ [](\A tp \in Topics : \A r \in Sessions(tp) :
          r.completedDate # Undefined => r.completed)
  /\ [][\A i \in 1..Len(topics) : \A j \in 1..Len(topics') :
          topics[i].id = topics'[j].id =>
            \A r \in Sessions(topics[i]) :
              r.completed => \E q \in Sessions(topics'[j]) :
                               /\ q.date = r.date /\ q.completed
                               /\ q.rating = r.rating
                               /\ q.completedDate = r.completedDate]_vars

\* ------------------------------------------------------------------- C5
\* C5 as claimed: after a second hard rating on one calendar day the topic
\* has at most one recovery session dated on the following calendar day.
Claim_C5 ==
  [][(/\ Rated("hard")
      /\ last'.id \in TopicIds
      /\ \E r \in Sessions(TopicOf(last'.id)) : r.date = last'.date
      /\ \E r \in Sessions(TopicOf(last'.id)) :
           r.completed /\ r.rating = "hard" /\ r.completedDate.day = DayOf(now))
     => LET tp == topics'[TopicAfter(last'.id)]
        IN Cardinality({i \in Typed(tp, "recovery") :
                          tp.reviews[i].date.day = DayOf(now) + 1}) <= 1]_vars

\* ------------------------------------------------------------------- C6
\* C6 as claimed: rating the first session of an untouched topic without an
\* exam date hard, at any time from its creation on, leaves a pending
\* recovery session with interval 1 dated one day after the completion time.
Claim_C6 ==
  [][(/\ Rated("hard")
      /\ last'.id \in TopicIds
      /\ LET tp == TopicOf(last'.id)
         IN /\ tp.examDate = Undefined
            /\ tp.reviews = generateSchedule(tp.complexity, Undefined, DateParse(tp.addedDate))
            /\ tp.reviews[1].type = "initial"
            /\ last'.date = tp.reviews[1].date)
     => \E r \in Sessions(topics'[TopicAfter(last'.id)]) :
          /\ r.type = "recovery" /\ ~r.completed /\ r.interval = 1
          /\ r.date = toISOString(now + TicksPerDay)]_vars

\* ------------------------------------------------------------------- C7
\* the pending non-final session that follows the session dated `date` in
\* the list of tp, 0 when there is none
Following(tp, date) ==
  LET IsTarget(r, idx) == r.date = date
      reviewIndex == FindIndex({ix \in 1..Len(tp.reviews) : IsTarget(tp.reviews[ix], ix)})
      IsNext(r, idx) == idx > reviewIndex /\ ~r.completed /\ r.type # "final"
  IN IF reviewIndex = 0 THEN 0 ELSE FindIndex({ix \in 1..Len(tp.reviews) : IsNext(tp.reviews[ix], ix)})

\* C7 as claimed: an easy rating moves the following pending non-final
\* session to a strictly later date, now + 1.3 * (old date - now) up to the
\* clock's unit, with interval the ceiling of the new gap in days, whether
\* that session was due in the future or overdue.  (Sessions due within
\* the day are left out: there the unit of the clock decides.)
Claim_C7 ==
  [][(/\ Rated("easy")
      /\ last'.id \in TopicIds
      /\ Following(TopicOf(last'.id), last'.date) # 0
      /\ LET tp == TopicOf(last'.id)
             due == DateParse(tp.reviews[Following(tp, last'.date)].date)
         IN due < now \/ due >= now + TicksPerDay)
     => LET tp == TopicOf(last'.id)
            old == tp.reviews[Following(tp, last'.date)]
            gap10 == 13 * (DateParse(old.date) - now)
        IN \E r \in Sessions(topics'[TopicAfter(last'.id)]) :
             /\ r.type = old.type /\ ~r.completed
             /\ DateParse(r.date) > DateParse(old.date)
             /\ 10 * (DateParse(r.date) - now) <= gap10
             /\ gap10 < 10 * (DateParse(r.date) - now + 1)
             /\ r.interval = Ceil(gap10, 10 * TicksPerDay)]_vars

ExamBeforeFirst(tp) ==
  tp.examDate # Undefined /\ DateParse(tp.examDate) < DateParse(tp.addedDate) + TicksPerDay

StaleCall ==
  /\ calls' = calls + 1
  /\ \/ /\ last'.op = "markReviewComplete"
        /\ \/ last'.id \notin TopicIds
           \/ \A r \in Sessions(TopicOf(last'.id)) : r.date # last'.date
     \/ /\ last'.op = "deleteTopic"
        /\ last'.id \notin TopicIds

\* C9: a stale markReviewComplete or deleteTopic call leaves the whole topic
\* collection unchanged.
Thm_C9 == [][StaleCall => topics' = topics]_vars

\* a review was rated by a date that no session of the named topic has,
\* with two topics in the collection
Witness_C9 ==
  /\ Len(topics) = 2
  /\ last.op = "markReviewComplete" /\ last.id \in TopicIds /\ last.date = StaleDate

\* ------------------------------------------------------------------ C10
\* the topic was just built by analyzeAndAddTopic without an exam date
JustBuilt(tp) ==
  last.op = "analyzeAndAddTopicResume" /\ last.id = tp.id /\ tp.examDate = Undefined

\* C10: without an exam date generateSchedule returns at most 20 pending
\* sessions with strictly increasing dates, the first one day after the
\* creation moment and typed initial, the later ones typed standard.
Inv_C10 ==
  \A tp \in Topics :
    JustBuilt(tp) =>
      /\ Len(tp.reviews) <= 20
      /\ Len(tp.reviews) >= 1
      /\ tp.reviews[1].date = toISOString(DateParse(tp.addedDate) + TicksPerDay)
      /\ \A i \in 1..Len(tp.reviews) :
           /\ ~tp.reviews[i].completed
           /\ tp.reviews[i].type = (IF i = 1 THEN "initial" ELSE "standard")
           /\ i > 1 => DateParse(tp.reviews[i].date) > DateParse(tp.reviews[i - 1].date)

\* a topic of complexity 1, the widest spacing, was just built with all 20
\* sessions
Witness_C10 ==
  \E tp \in Topics : JustBuilt(tp) /\ tp.complexity = 1 /\ Len(tp.reviews) = 20

\* ------------------------------------------------------------------ C11
\* the topic was just built by analyzeAndAddTopic with an exam date
BuiltWithExam(tp) ==
  last.op = "analyzeAndAddTopicResume" /\ last.id = tp.id /\ tp.examDate # Undefined

\* C11: with an exam date earlier than the first candidate date, one day
\* after the creation moment, generateSchedule returns exactly one session:
\* final, dated exactly at the exam date, with interval 0, pending.
Inv_C11 ==
  \A tp \in Topics :
    (BuiltWithExam(tp) /\ ExamBeforeFirst(tp)) =>
      /\ Len(tp.reviews) = 1
      /\ tp.reviews[1].type = "final"
      /\ tp.reviews[1].date = toISOString(tp.examDate.day * TicksPerDay)
      /\ tp.reviews[1].interval = 0
      /\ ~tp.reviews[1].completed

\* a topic of the hardest kind was just built, late in the day of its exam
Witness_C11 ==
  \E tp \in Topics :
    /\ BuiltWithExam(tp) /\ ExamBeforeFirst(tp)
    /\ tp.complexity = 10 /\ tp.addedDate.tod > 0
    /\ tp.examDate.day = tp.addedDate.day /\ Len(tp.reviews) = 1

\* ------------------------------------------------------------------ C12
\* the regular sessions of a schedule: those the loop emitted
Regular(tp) == {i \in 1..Len(tp.reviews) : tp.reviews[i].type \in {"initial", "standard"}}

\* ceil((exam date - date of the last regular session) in days)
ExamGap(tp) ==
  LET lastRegular == CHOOSE i \in Regular(tp) : \A j \in Regular(tp) : j <= i
  IN Ceil(DateParse(tp.examDate) - DateParse(tp.reviews[lastRegular].date), TicksPerDay)

\* C12: with an exam date not earlier than the first candidate date,
\* generateSchedule appends a final session if and only if the gap in days
\* between the last regular session and the exam exceeds 4; that session is
\* dated two days before the exam, has interval gap - 2 and is strictly
\* later than every regular session.
Inv_C12 ==
  \A tp \in Topics :
    (BuiltWithExam(tp) /\ ~ExamBeforeFirst(tp)) =>
      /\ Regular(tp) # {}
      /\ (Typed(tp, "final") # {}) <=> (ExamGap(tp) > 4)
      /\ \A i \in Typed(tp, "final") :
           /\ i = Len(tp.reviews)
           /\ tp.reviews[i].date = toISOString((tp.examDate.day - 2) * TicksPerDay)
           /\ tp.reviews[i].interval = ExamGap(tp) - 2
           /\ \A j \in Regular(tp) :
                DateParse(tp.reviews[j].date) < DateParse(tp.reviews[i].date)

\* a topic was just built whose last regular session lies more than four
\* days before its exam, and it has its final session
Witness_C12 ==
  \E tp \in Topics :
    /\ BuiltWithExam(tp) /\ ~ExamBeforeFirst(tp)
    /\ ExamGap(tp) > 4 /\ Typed(tp, "final") # {} /\ Len(tp.reviews) >= 3

\* ------------------------------------------------------------------ C13
\* the step is the continuation of an analyzeAndAddTopic run whose analysis
\* call failed
ResumeFailed ==
  /\ Len(inflight') = Len(inflight) - 1
  /\ last'.op = "analyzeAndAddTopicResume" /\ last'.rating = "failed"

Claim_C14 == inflight # <<>> => isLoading = TRUE

\* ------------------------------------------------------------------ C15
\* the completion day of a completed session
CompletionDay(r) == IF r.completedDate # Undefined THEN r.completedDate.day ELSE r.date.day

\* the completed sessions of all topics whose completion day is `day`
CompletedOn(day) ==
  {p \in UNION {{<<i, j>> : j \in 1..Len(topics[i].reviews)} : i \in 1..Len(topics)} :
     /\ topics[p[1]].reviews[p[2]].completed
     /\ CompletionDay(topics[p[1]].reviews[p[2]]) = day}

\* the grid is the one claimed for a reader at the present time
HeatmapAsClaimed(grid) ==
  /\ Len(grid) = 60
  /\ \A k \in 1..60 :
       LET day == DayOf(now) - 60 + k
           count == Cardinality(CompletedOn(day))
       IN /\ grid[k].date = DateOnly(day)
          /\ grid[k].count = count
          /\ grid[k].intensity = (CASE count = 0 -> 0
                                    [] count \in 1..2 -> 1
                                    [] count \in 3..5 -> 2
                                    [] count \in 6..8 -> 3
                                    [] OTHER -> 4)

\* C15 as claimed: the heatmap the view holds always has exactly 60 entries,
\* one per consecutive calendar day of the window ending today, each with the
\* number of completed sessions of all topics whose completion day it is and
\* the intensity 0, 1, 2, 3, 4 for counts 0, 1-2, 3-5, 6-8, 9 or more.
Claim_C15 == heatmap # Dirty => HeatmapAsClaimed(heatmap)

\* the heatmap as computed at the present time
FreshHeatmapAsClaimed == HeatmapAsClaimed(activityHeatmap(topics, now))

\* ------------------------------------------------------------------ C16
\* C16 as claimed: in a schedule just generated, the interval of every
\* session the loop emitted after the first is the number of days between
\* its date and the date of the session before it.
Claim_C16 ==
  \A tp \in Topics :
    (last.op = "analyzeAndAddTopicResume" /\ last.id = tp.id) =>
      \A i \in Typed(tp, "standard") :
        tp.reviews[i].interval * TicksPerDay =
          DateParse(tp.reviews[i].date) - DateParse(tp.reviews[i - 1].date)

\* ------------------------------------------------------------------ C17
\* C17 as claimed: no two sessions of one topic have the same date.
Claim_C17 ==
  \A tp \in Topics : \A i, j \in 1..Len(tp.reviews) :
    i # j => tp.reviews[i].date # tp.reviews[j].date

\* ------------------------------------------------------------------ C18
\* the step is a call of markReviewComplete
MarkStep == calls' = calls + 1 /\ last'.op = "markReviewComplete"

\* C18: markReviewComplete on topic T keeps the order of the collection,
\* every other topic, and T's id, name, addedDate, examDate, complexity,
\* subtopics, summary and notes; with rating good it changes no session of T
\* but the completed one; and with any rating the final sessions of T keep
\* their dates.
Thm_C18 ==
  [][MarkStep =>
       /\ Len(topics') = Len(topics)
       /\ \A i \in 1..Len(topics) :
            LET a == topics[i]
                b == topics'[i]
            IN /\ a.id # last'.id => b = a
               /\ b.id = a.id /\ b.name = a.name /\ b.addedDate = a.addedDate
               /\ b.examDate = a.examDate /\ b.complexity = a.complexity
               /\ b.subtopics = a.subtopics /\ b.summary = a.summary
               /\ b.notes = a.notes
               /\ last'.rating = "good" =>
                    /\ Len(b.reviews) = Len(a.reviews)
                    /\ Cardinality({j \in 1..Len(a.reviews) :
                                      b.reviews[j] # a.reviews[j]}) <= 1
                    /\ \A j \in 1..Len(a.reviews) :
                         b.reviews[j] # a.reviews[j] => a.reviews[j].date = last'.date
               /\ Cardinality(Typed(b, "final")) = Cardinality(Typed(a, "final"))
               /\ \A j \in Typed(a, "final") : \E k \in Typed(b, "final") :
                    b.reviews[k].date = a.reviews[j].date]_vars

\* with two topics in the collection, the session just before the pending
\* final session of one of them was rated easy
Witness_C18 ==
  /\ last.op = "markReviewComplete" /\ last.rating = "easy"
  /\ Len(topics) = 2
  /\ \E tp \in Topics : \E i \in Typed(tp, "final") :
       /\ tp.id = last.id /\ i > 1
       /\ ~tp.reviews[i].completed
       /\ tp.reviews[i - 1].date = last.date /\ tp.reviews[i - 1].completed

\* ------------------------------------------------------------------ C19
\* the step is the continuation of an analyzeAndAddTopic run
ResumeStep ==
  Len(inflight') = Len(inflight) - 1 /\ last'.op = "analyzeAndAddTopicResume"

Claim_C20 ==
  \A tp \in Topics :
    tp.examDate # Undefined =>
      \A r \in Pending(tp) : DateParse(r.date) <= DateParse(tp.examDate)
====
